---------------------------- MODULE Spec2Model ----------------------------
(***************************************************************************)
(* A model of the inspigtor kernel: the PiCCO2 reader (record intervals,   *)
(* cached descriptive statistics), the pool of readers (statistics matrix, *)
(* time-effect tests, pre-mortem statistics) and the groups of pools       *)
(* (group-effect test).                                                    *)
(*                                                                         *)
(* Conventions.  Python indexes are kept 0-based; a Python list is a TLA+  *)
(* sequence and Iloc(s, i) reads its i-th element.  A value that may be    *)
(* absent (None, an unbound local, a cell that does not parse, NaN) is a   *)
(* tuple of length 0; a present value x is the tuple <<x>>.  Times are     *)
(* seconds since midnight.  An external statistical test is kept as the    *)
(* name of the test together with the samples handed to it.                *)
(***************************************************************************)
EXTENDS Integers, Sequences, FiniteSets, TLC

VARIABLES
    readers,    \* filename -> the PiCCO2FileReader object of that file
    pools,      \* pool id -> PigsPool._pigs: the filenames in insertion order
    groups,     \* PigsGroups._groups: sequence of [name, pool]
    result      \* the outcome of the last call: what it returned or raised

vars == <<readers, pools, groups, result>>

---------------------------------------------------------------------------
(* Bounds of the model. *)

MaxRows == 4        \* rows of a table
MaxGap == 2         \* largest gap between two consecutive samples, in ticks
MaxTick == 4        \* Tinitial and Tfinal are drawn from 0 .. MaxTick ticks
Tick == 300         \* seconds between two instants the model distinguishes

(* Program constants. *)

TenMinutes == 600          \* '00:10:00'
FallbackSeconds == 600     \* t_minus_10_strptime.seconds < 600
SecondsPerDay == 86400     \* timedelta.seconds is taken modulo one day

---------------------------------------------------------------------------
(* Python helpers. *)

None == <<>>
Some(x) == <<x>>
IsNone(o) == o = <<>>
Get(o) == o[1]

Iloc(s, i) == s[i + 1]

\* range(a, b) as a set
Range(a, b) == {i \in a .. (b - 1) : TRUE}

Min(S) == CHOOSE x \in S : \A y \in S : x <= y
Max(S) == CHOOSE x \in S : \A y \in S : x >= y

\* timedelta.seconds of a difference of two times of the same day
Seconds(d) == d % SecondsPerDay
\* timedelta.days < 0
DaysNegative(d) == d < 0

RECURSIVE Concat(_)
Concat(ss) == IF ss = <<>> THEN <<>> ELSE Head(ss) \o Concat(Tail(ss))

RECURSIVE SumSeq(_)
SumSeq(s) == IF s = <<>> THEN 0 ELSE Head(s) + SumSeq(Tail(s))

RECURSIVE GCD(_, _)
GCD(a, b) == IF b = 0 THEN a ELSE GCD(b, a % b)

\* An exception: its type and what its message names.
NoError == [type |-> "", interval |-> 0, filename |-> 0]
Error(type, interval, filename) ==
    [type |-> type, interval |-> interval, filename |-> filename]

---------------------------------------------------------------------------
(* PiCCO2FileReader.__init__ *)

\* The reference time: Tinitial - 10 minutes, or the start of the experiment.
TMinus10Reference(Time, Tinitial) ==
    LET d == Tinitial - TenMinutes
    IN  IF DaysNegative(d) \/ Seconds(d) < FallbackSeconds
        THEN Iloc(Time, 0)
        ELSE d

\* The rows whose time is at or after the reference time.
RowsAfterReference(Time, Tinitial) ==
    {i \in Range(0, Len(Time)) :
        ~DaysNegative(Iloc(Time, i) - TMinus10Reference(Time, Tinitial))}

\* 'Invalid value for Tinitial parameters' is raised when no row qualifies.
ValidTMinus10(Time, Tinitial) == RowsAfterReference(Time, Tinitial) # {}

NewReader(filename, Time, columns, Tinitial, Tfinal) ==
    [filename |-> filename,
     Time |-> Time,
     columns |-> columns,
     Tinitial |-> Tinitial,
     Tfinal |-> Tfinal,
     t_minus_10_index |-> Min(RowsAfterReference(Time, Tinitial)),
     record_intervals |-> <<>>,
     statistics |-> [p \in DOMAIN columns |-> None]]

---------------------------------------------------------------------------
(* PiCCO2FileReader.get_t_final_index *)

get_t_final_index(reader) ==
    LET later == {i \in Range(0, Len(reader.Time)) :
                    DaysNegative(reader.Tfinal - Iloc(reader.Time, i))}
    IN  IF later # {} THEN Min(later) ELSE Len(reader.Time)

---------------------------------------------------------------------------
(* PiCCO2FileReader.set_record_intervals *)

\* The first loop of one window: the rows of [t_minus_10_index, t_max) whose
\* elapsed time from the reference row is in [start, end) or past end.
WindowDelta(reader, t_index) ==
    Seconds(Iloc(reader.Time, t_index) - Iloc(reader.Time, reader.t_minus_10_index))

WindowRows(reader) == Range(reader.t_minus_10_index, get_t_final_index(reader))

RowsInWindow(reader, start, end) ==
    {t \in WindowRows(reader) :
        ~(WindowDelta(reader, t) < start) /\ WindowDelta(reader, t) < end}

RowsPastWindow(reader, start, end) ==
    {t \in WindowRows(reader) :
        ~(WindowDelta(reader, t) < start) /\ ~(WindowDelta(reader, t) < end)}

\* first_record_index is a local of the whole call: a window that no row
\* enters leaves it as the previous window set it, or unbound.
FirstRecordIndex(reader, start, end, previous) ==
    LET entered == RowsInWindow(reader, start, end)
    IN  IF entered # {} THEN Some(Min(entered)) ELSE previous

\* last_record_index is reset to None for every window.
LastRecordIndex(reader, start, end) ==
    LET left == RowsPastWindow(reader, start, end)
    IN  IF left # {} THEN Min(left) ELSE Len(reader.Time)

\* A slip: the interval is closed at the row that ends the cycle, past the
\* offset.
LastSeen(delta_ts, record) ==
    IF delta_ts = <<>> THEN None ELSE Some(delta_ts[Len(delta_ts)][1])

\* A slip: the first recorded row is taken, whatever its elapsed time.
FirstRecorded(delta_ts, record) ==
    IF delta_ts = <<>> THEN None ELSE Some(delta_ts[1][1])

\* The inner loop over delta_ts: the first recorded row past the record time.
FirstPastRecord(delta_ts, record) ==
    LET past == {k \in 1 .. Len(delta_ts) : delta_ts[k][2] > record}
    IN  IF past = {} THEN None ELSE Some(delta_ts[Min(past)][1])

\* The second loop of one window, from row t_index on.  The intervals found
\* are appended to out.
RECURSIVE SplitWindow(_, _, _, _, _, _, _)
SplitWindow(reader, t_index, last_record_index, starting_index, delta_ts, spec, out) ==
    IF t_index >= last_record_index THEN out
    ELSE LET t0 == Iloc(reader.Time, starting_index)
             t1 == Iloc(reader.Time, t_index)
             delta_t == Seconds(t1 - t0)
             seen == Append(delta_ts, <<t_index, delta_t>>)
         IN  IF delta_t > spec.record + spec.offset
             THEN LET r == FirstPastRecord(seen, spec.record)
                      found == IF IsNone(r) THEN out
                               ELSE Append(out, <<starting_index, Get(r)>>)
                  IN  SplitWindow(reader, t_index + 1, last_record_index,
                                  t_index, <<>>, spec, found)
             ELSE SplitWindow(reader, t_index + 1, last_record_index,
                              starting_index, seen, spec, out)

\* The loop over the windows, from the k-th on.  chunks holds, per window
\* already processed, the intervals it appended.
RECURSIVE RecordIntervalsFrom(_, _, _, _, _)
RecordIntervalsFrom(reader, intervals, k, first_record_index, chunks) ==
    IF k > Len(intervals)
    THEN [status |-> "ok", error |-> NoError, chunks |-> chunks]
    ELSE LET spec == intervals[k]
             first == FirstRecordIndex(reader, spec.start, spec.end, first_record_index)
             last == LastRecordIndex(reader, spec.start, spec.end)
         IN  IF IsNone(first)
             THEN [status |-> "raise",
                   error |-> Error("UnboundLocalError", 0, reader.filename),
                   chunks |-> chunks]
             ELSE RecordIntervalsFrom(reader, intervals, k + 1, first,
                      Append(chunks,
                             SplitWindow(reader, Get(first), last, Get(first),
                                         <<>>, spec, <<>>)))

RecordIntervals(reader, intervals) ==
    RecordIntervalsFrom(reader, intervals, 1, None, <<>>)

\* A slip: the cache is left as it is.
KeepStatisticsCache(reader) == reader

reset_statistics_cache(reader) ==
    [reader EXCEPT !.statistics = [p \in DOMAIN reader.columns |-> None]]

\* The call: the reader it leaves, and whether it returned or raised.
set_record_intervals(reader, intervals) ==
    LET r == RecordIntervals(reader, intervals)
    IN  [reader |-> [reset_statistics_cache(reader) EXCEPT
                        !.record_intervals = Concat(r.chunks)],
         status |-> r.status, error |-> r.error, chunks |-> r.chunks]

---------------------------------------------------------------------------
(* PiCCO2FileReader.get_descriptive_statistics *)

\* A slip: every cell is taken as a number.
AlwaysParses(cell) == TRUE

\* float(cell) succeeds
ParsesAsFloat(cell) == ~IsNone(cell)

\* The values of the rows [first_index, last_index) that parse as a float.
RECURSIVE IntervalData(_, _, _)
IntervalData(column, first_index, last_index) ==
    IF first_index >= last_index THEN <<>>
    ELSE (IF ParsesAsFloat(Iloc(column, first_index))
          THEN <<Get(Iloc(column, first_index))>> ELSE <<>>)
         \o IntervalData(column, first_index + 1, last_index)

\* np.average, as a fraction in lowest terms
Average(data) ==
    LET g == GCD(SumSeq(data), Len(data))
    IN  <<SumSeq(data) \div g, Len(data) \div g>>

\* self._statistics[selected_property] = {}
EmptyStatistics == [intervals |-> <<>>, data |-> <<>>, averages |-> <<>>]

\* The setdefault(...).append(...) lines: one entry more in every sequence.
AppendStatistics(entry, index, data) ==
    [intervals |-> Append(entry.intervals, index + 1),
     data |-> Append(entry.data, data),
     averages |-> Append(entry.averages, Average(data))]

\* list[index]: a negative index counts from the end
ValidIndex(index, n) == index < n /\ index >= -n
ListIndex(index, n) == IF index < 0 THEN index + n ELSE index

\* The loop over interval_indexes, from the k-th on.
RECURSIVE ComputeStatistics(_, _, _, _, _, _)
ComputeStatistics(reader, selected_property, interval_indexes, k, entry, scanned) ==
    IF k > Len(interval_indexes)
    THEN [status |-> "ok", error |-> NoError, entry |-> entry, scanned |-> scanned]
    ELSE LET index == interval_indexes[k]
             n == Len(reader.record_intervals)
         IN  IF ~ValidIndex(index, n)
             THEN [status |-> "raise",
                   error |-> Error("IndexError", 0, reader.filename),
                   entry |-> entry, scanned |-> scanned]
             ELSE LET interval == Iloc(reader.record_intervals, ListIndex(index, n))
                      data == IntervalData(reader.columns[selected_property],
                                           interval[1], interval[2])
                      rows == scanned + Cardinality(Range(interval[1], interval[2]))
                  IN  IF data = <<>>
                      THEN [status |-> "raise",
                            error |-> Error("PiCCO2FileReaderError", index + 1,
                                            reader.filename),
                            entry |-> entry, scanned |-> rows]
                      ELSE ComputeStatistics(reader, selected_property,
                               interval_indexes, k + 1,
                               AppendStatistics(entry, index, data), rows)

\* interval_indexes = None selects every record interval
SelectedIndexes(reader, interval_indexes) ==
    IF IsNone(interval_indexes)
    THEN [i \in 1 .. Len(reader.record_intervals) |-> i - 1]
    ELSE Get(interval_indexes)

\* A slip: the cache is never read.
NeverCached(reader, selected_property) == FALSE

\* Whether the call is answered from the cache.
Cached(reader, selected_property) ==
    ~IsNone(reader.statistics[selected_property])

\* What a call that computed c leaves and gives: the cache holds the entry
\* as far as it was filled, also when the call raised.
Computed(reader, selected_property, c) ==
    [reader |-> [reader EXCEPT !.statistics[selected_property] = Some(c.entry)],
     status |-> c.status, error |-> c.error, value |-> c.entry,
     scanned |-> c.scanned]

\* The call: the reader it leaves, what it returns or raises, and the number
\* of data rows it scanned.
get_descriptive_statistics(reader, selected_property, interval_indexes) ==
    IF selected_property \notin DOMAIN reader.columns
    THEN [reader |-> reader, status |-> "raise",
          error |-> Error("PiCCO2FileReaderError", 0, reader.filename),
          value |-> EmptyStatistics, scanned |-> 0]
    ELSE IF Cached(reader, selected_property)
    THEN [reader |-> reader, status |-> "ok", error |-> NoError,
          value |-> Get(reader.statistics[selected_property]), scanned |-> 0]
    ELSE IF reader.record_intervals = <<>>
    THEN [reader |-> reader, status |-> "raise",
          error |-> Error("PiCCO2FileReaderError", 0, reader.filename),
          value |-> EmptyStatistics, scanned |-> 0]
    ELSE Computed(reader, selected_property,
                  ComputeStatistics(reader, selected_property,
                      SelectedIndexes(reader, interval_indexes), 1,
                      EmptyStatistics, 0))

---------------------------------------------------------------------------
(* PiCCO2FileReader.get_coverages *)

\* 100.0 * coverage / (last_index - first_index) of one record interval, as
\* a fraction in lowest terms: coverage counts the cells that parse.
Coverage(column, interval) ==
    LET coverage == Len(IntervalData(column, interval[1], interval[2]))
        total == interval[2] - interval[1]
        g == GCD(100 * coverage, total)
    IN  <<(100 * coverage) \div g, total \div g>>

\* The call: it changes nothing in the reader.  Without record intervals it
\* returns an empty list before the column is looked up; with record
\* intervals the lookup of a column the table does not have ends the call
\* with the KeyError of the data frame, which the except ValueError clause
\* does not catch.
get_coverages(reader, selected_property) ==
    IF reader.record_intervals = <<>>
    THEN [status |-> "ok", error |-> NoError, value |-> <<>>]
    ELSE IF selected_property \notin DOMAIN reader.columns
    THEN [status |-> "raise", error |-> Error("KeyError", 0, reader.filename),
          value |-> <<>>]
    ELSE [status |-> "ok", error |-> NoError,
          value |-> [k \in 1 .. Len(reader.record_intervals) |->
                        Coverage(reader.columns[selected_property],
                                 reader.record_intervals[k])]]

---------------------------------------------------------------------------
(* set_valid_intervals, which the main window calls on every reader: the   *)
(* runs of rows whose cell of the selected property parses as a float.     *)

\* The scan of the column from row i on.  open is the first row of the run
\* the scan is in, if it is in one; a row that does not parse closes the
\* run, and so does the end of the table.
RECURSIVE ValidRuns(_, _, _, _)
ValidRuns(column, i, open, out) ==
    IF i >= Len(column)
    THEN (IF IsNone(open) THEN out ELSE Append(out, <<Get(open), i>>))
    ELSE IF ParsesAsFloat(Iloc(column, i))
    THEN ValidRuns(column, i + 1, IF IsNone(open) THEN Some(i) ELSE open, out)
    ELSE ValidRuns(column, i + 1, None,
                   IF IsNone(open) THEN out ELSE Append(out, <<Get(open), i>>))

set_valid_intervals(reader, selected_property) ==
    [status |-> "ok", error |-> NoError,
     value |-> ValidRuns(reader.columns[selected_property], 0, None, <<>>)]

---------------------------------------------------------------------------
(* PiCCO2FileReader.record_times, t_interval_index and the two properties  *)
(* built on it.                                                            *)

\* (Time[start], Time[end - 1]) of every record interval
record_times(reader) ==
    [k \in 1 .. Len(reader.record_intervals) |->
        <<Iloc(reader.Time, reader.record_intervals[k][1]),
          Iloc(reader.Time, reader.record_intervals[k][2] - 1)>>]

\* A slip: an interval that ends at the time qualifies too.
EndsAtOrAfter(reader, time) ==
    LET times == record_times(reader)
        after == {index \in Range(0, Len(times)) :
                     ~DaysNegative(Iloc(times, index)[2] - time)}
    IN  IF after = {} THEN -1 ELSE Min(after)

\* The index of the first record interval that ends after time, or -1.
t_interval_index(reader, time) ==
    LET times == record_times(reader)
        after == {index \in Range(0, Len(times)) :
                     DaysNegative(time - Iloc(times, index)[2])}
    IN  IF after = {} THEN -1 ELSE Min(after)

t_final_interval_index(reader) == t_interval_index(reader, reader.Tfinal)

t_initial_interval_index(reader) == t_interval_index(reader, reader.Tinitial)

---------------------------------------------------------------------------
(* PigsPool: an ordered dictionary of readers keyed by filename.  A pool   *)
(* is the sequence of its keys; the readers are shared objects held in the *)
(* variable readers, so what a pool call caches in a reader is seen by     *)
(* every later call on that reader.                                        *)

NewPool == <<>>

InPool(pigs, filename) == \E k \in 1 .. Len(pigs) : pigs[k] = filename

\* A slip: the reader is registered whether its filename is or not.
AppendReader(pigs, filename) == Append(pigs, filename)

add_reader(pigs, filename) ==
    IF InPool(pigs, filename) THEN pigs ELSE Append(pigs, filename)

remove_reader(pigs, filename) ==
    LET Others(f) == f # filename
    IN  SelectSeq(pigs, Others)

\* The reader of this version answers the pool's 'mean' with the sequence it
\* keeps under 'averages'; a dictionary that no interval was appended to has
\* no key at all.
HasStatistics(descriptive_statistics, selected_statistics) ==
    /\ selected_statistics \in {"mean", "intervals"}
    /\ descriptive_statistics.intervals # <<>>

StatisticsOf(descriptive_statistics, selected_statistics) ==
    IF selected_statistics = "mean"
    THEN descriptive_statistics.averages
    ELSE descriptive_statistics.intervals

NaN == None

\* The sequence written in column i: output[0:len(s), i] = s for the i-th
\* sequence of all_statistics, in the order the sequences were appended.
ColumnOfOutput(all_statistics, i) ==
    IF i < Len(all_statistics) THEN Iloc(all_statistics, i) ELSE <<>>

\* np.full((max_n_intervals, n_pigs), np.nan) filled column by column; the
\* matrix is the sequence of its rows.
OutputMatrix(all_statistics, max_n_intervals, n_pigs) ==
    [r \in 1 .. max_n_intervals |->
        [c \in 1 .. n_pigs |->
            LET s == ColumnOfOutput(all_statistics, c - 1)
            IN  IF r <= Len(s) THEN Some(s[r]) ELSE NaN]]

\* What get_statistics gives once its loop over the readers gave p.
PoolOutput(p, n_pigs) ==
    IF p.status = "raise"
    THEN [readers |-> p.readers, status |-> "raise", error |-> p.error,
          value |-> <<>>, subjects |-> p.subjects]
    ELSE IF p.all_statistics = <<>>
    THEN [readers |-> p.readers, status |-> "raise",
          error |-> Error("PigsPoolError", 0, 0),
          value |-> <<>>, subjects |-> p.subjects]
    ELSE [readers |-> p.readers, status |-> "ok", error |-> NoError,
          value |-> OutputMatrix(p.all_statistics,
                       Max({Len(p.all_statistics[k]) :
                               k \in 1 .. Len(p.all_statistics)}),
                       n_pigs),
          subjects |-> p.subjects]

\* What the loop has after the k-th reader of the pool answered with call:
\* the reader as the call left it, its sequence appended or the reader
\* skipped, or the error that ends the loop.
PoolAnswer(acc, filename, selected_statistics, call) ==
    LET rs == [acc.readers EXCEPT ![filename] = call.reader]
        skipped == [filename |-> filename, used |-> FALSE, statistics |-> <<>>]
    IN  IF call.status = "raise"
        THEN IF call.error.type = "PiCCO2FileReaderError"
             THEN [acc EXCEPT !.readers = rs,
                              !.subjects = Append(@, skipped)]
             ELSE [acc EXCEPT !.readers = rs, !.status = "raise",
                              !.error = call.error]
        ELSE IF ~HasStatistics(call.value, selected_statistics)
        THEN [acc EXCEPT !.readers = rs, !.status = "raise",
                         !.error = Error("PigsPoolError", 0, filename)]
        ELSE [acc EXCEPT
                 !.readers = rs,
                 !.all_statistics =
                     Append(@, StatisticsOf(call.value, selected_statistics)),
                 !.subjects =
                     Append(@, [skipped EXCEPT
                                   !.used = TRUE,
                                   !.statistics = StatisticsOf(call.value,
                                                      selected_statistics)])]

\* The loop of get_statistics over the readers of the pool, from the k-th
\* on: acc.readers are the readers as the calls so far left them,
\* acc.subjects tells for each reader of the pool what its call gave.
RECURSIVE PoolStatistics(_, _, _, _, _, _)
PoolStatistics(pigs, selected_property, selected_statistics, interval_indexes, k, acc) ==
    IF k > Len(pigs) \/ acc.status = "raise" THEN acc
    ELSE PoolStatistics(pigs, selected_property, selected_statistics,
             interval_indexes, k + 1,
             PoolAnswer(acc, pigs[k], selected_statistics,
                 get_descriptive_statistics(acc.readers[pigs[k]],
                     selected_property, interval_indexes)))

\* PigsPool.get_statistics: the readers it leaves, the matrix it returns or
\* the error it raises.
get_statistics(pigs, rs, selected_property, selected_statistics, interval_indexes) ==
    PoolOutput(PoolStatistics(pigs, selected_property, selected_statistics,
                   interval_indexes, 1,
                   [readers |-> rs, status |-> "ok", error |-> NoError,
                    all_statistics |-> <<>>, subjects |-> <<>>]),
               Len(pigs))

\* scipy.stats.friedmanchisquare(*samples) wants three samples or more; the
\* p-value it gives is kept as the test and the samples it was given.
friedmanchisquare(samples) ==
    IF Len(samples) < 3
    THEN [status |-> "raise", error |-> Error("ValueError", 0, 0),
          pvalue |-> NaN]
    ELSE [status |-> "ok", error |-> NoError,
          pvalue |-> Some([test |-> "friedmanchisquare", samples |-> samples])]

\* scikit_posthocs.posthoc_dunn(samples); whether it accepts fewer than two
\* samples is left open (accepts).
posthoc_dunn(samples, accepts) ==
    IF Len(samples) < 2 /\ ~accepts
    THEN [status |-> "raise", error |-> Error("ValueError", 0, 0),
          pvalue |-> NaN]
    ELSE [status |-> "ok", error |-> NoError,
          pvalue |-> Some([test |-> "posthoc_dunn", samples |-> samples])]

\* A slip: a row is dropped only when every subject is missing.
AllNaN(averages) == \A c \in 1 .. Len(averages) : IsNone(averages[c])

\* np.isnan(averages).any()
AnyNaN(averages) == \E c \in 1 .. Len(averages) : IsNone(averages[c])

\* The loop over enumerate(averages_per_interval), from row i on: the
\* indexes of the rows that are kept.
RECURSIVE ValidIntervals(_, _)
ValidIntervals(averages_per_interval, i) ==
    IF i >= Len(averages_per_interval) THEN <<>>
    ELSE (IF AnyNaN(Iloc(averages_per_interval, i)) THEN <<>> ELSE <<i>>)
         \o ValidIntervals(averages_per_interval, i + 1)

\* valid_averages_per_interval, appended row by row with valid_intervals
ValidAverages(averages_per_interval, valid_intervals) ==
    [k \in 1 .. Len(valid_intervals) |->
        Iloc(averages_per_interval, valid_intervals[k])]

\* except PiCCO2FileReaderError as error: raise PigsPoolError(...) from error
AsPigsPoolError(error) ==
    IF error.type = "PiCCO2FileReaderError"
    THEN Error("PigsPoolError", error.interval, error.filename)
    ELSE error

\* What both time-effect evaluations do with the pool matrix g of the means
\* before the test: its rows without NaN are the samples.
TimeEffectSamples(g) ==
    [readers |-> g.readers, status |-> g.status,
     error |-> AsPigsPoolError(g.error), matrix |-> g.value,
     valid_intervals |-> ValidIntervals(g.value, 0),
     samples |-> ValidAverages(g.value, ValidIntervals(g.value, 0))]

\* What the evaluation returns or raises once the test was run on samples.
TimeEffect(s, test) ==
    IF s.status = "raise"
    THEN [readers |-> s.readers, status |-> "raise", error |-> s.error,
          value |-> <<>>, passed |-> None, valid_intervals |-> <<>>,
          p_value |-> NaN]
    ELSE [readers |-> s.readers, status |-> test.status, error |-> test.error,
          value |-> s.matrix, passed |-> Some(s.samples),
          valid_intervals |-> IF test.status = "ok" THEN s.valid_intervals
                              ELSE <<>>,
          p_value |-> test.pvalue]

GlobalTimeEffect(s) == TimeEffect(s, friedmanchisquare(s.samples))

PairwiseTimeEffect(s, accepts) == TimeEffect(s, posthoc_dunn(s.samples, accepts))

evaluate_global_time_effect(pigs, rs, selected_property, interval_indexes) ==
    GlobalTimeEffect(TimeEffectSamples(
        get_statistics(pigs, rs, selected_property, "mean", interval_indexes)))

evaluate_pairwise_time_effect(pigs, rs, selected_property, interval_indexes, accepts) ==
    PairwiseTimeEffect(TimeEffectSamples(
        get_statistics(pigs, rs, selected_property, "mean", interval_indexes)),
        accepts)

\* A slip: the interval before Tinitial and the n + 1 last intervals.
PremortemOneMore(t_initial, t_final, n_last_intervals) ==
    <<t_initial - 1>>
        \o [j \in 1 .. (n_last_intervals + 1) |->
               t_final - n_last_intervals + j - 1]

\* [t_initial_interval_index - 1] + list(range(t_final_interval_index
\* - n_last_intervals + 1, t_final_interval_index + 1))
PremortemIndexes(t_initial, t_final, n_last_intervals) ==
    <<t_initial - 1>>
        \o [j \in 1 .. n_last_intervals |->
               t_final - n_last_intervals + j]

\* [list(x) for x in zip(*averages)]: as many rows as the shortest sequence
\* has entries, none when there is no sequence.
Transposed(averages) ==
    LET rows == IF averages = <<>> THEN 0
                ELSE Min({Len(averages[k]) : k \in 1 .. Len(averages)})
    IN  [r \in 1 .. rows |-> [c \in 1 .. Len(averages) |-> averages[c][r]]]

\* The interval indexes that premortem_statistics selects for a reader.
PremortemSubject(reader, n_last_intervals) ==
    [filename |-> reader.filename,
     t_initial_interval_index |-> t_initial_interval_index(reader),
     t_final_interval_index |-> t_final_interval_index(reader),
     interval_indexes |-> PremortemIndexes(t_initial_interval_index(reader),
                              t_final_interval_index(reader), n_last_intervals),
     used |-> FALSE, statistics |-> <<>>]

\* What the loop has after the reader of subject answered with call.
PremortemAnswer(acc, subject, call) ==
    LET rs == [acc.readers EXCEPT ![subject.filename] = call.reader]
    IN  IF call.status = "raise"
        THEN IF call.error.type = "PiCCO2FileReaderError"
             THEN [acc EXCEPT !.readers = rs,
                              !.subjects = Append(@, subject)]
             ELSE [acc EXCEPT !.readers = rs, !.status = "raise",
                              !.error = call.error,
                              !.subjects = Append(@, subject)]
        ELSE IF ~HasStatistics(call.value, "mean")
        THEN [acc EXCEPT !.readers = rs, !.status = "raise",
                         !.error = Error("KeyError", 0, subject.filename),
                         !.subjects = Append(@, subject)]
        ELSE [acc EXCEPT
                 !.readers = rs,
                 !.averages = Append(@, StatisticsOf(call.value, "mean")),
                 !.subjects =
                     Append(@, [subject EXCEPT
                                   !.used = TRUE,
                                   !.statistics = StatisticsOf(call.value,
                                                               "mean")])]

\* The call premortem_statistics makes on the reader of subject.
PremortemCall(acc, selected_property, subject) ==
    PremortemAnswer(acc, subject,
        get_descriptive_statistics(acc.readers[subject.filename],
            selected_property, Some(subject.interval_indexes)))

\* The loop of premortem_statistics over the readers of the pool, from the
\* k-th on.
RECURSIVE PremortemAverages(_, _, _, _, _)
PremortemAverages(pigs, n_last_intervals, selected_property, k, acc) ==
    IF k > Len(pigs) \/ acc.status = "raise" THEN acc
    ELSE PremortemAverages(pigs, n_last_intervals, selected_property, k + 1,
             PremortemCall(acc, selected_property,
                 PremortemSubject(acc.readers[pigs[k]], n_last_intervals)))

\* The two tests on the transposed averages: Friedman first, then Dunn.
PremortemTests(p, averages, friedman, dunn) ==
    IF p.status = "raise"
    THEN [readers |-> p.readers, status |-> "raise", error |-> p.error,
          passed |-> None, subjects |-> p.subjects,
          interval_indexes |-> <<>>, p_value |-> NaN]
    ELSE IF friedman.status = "raise"
    THEN [readers |-> p.readers, status |-> "raise", error |-> friedman.error,
          passed |-> Some(averages), subjects |-> p.subjects,
          interval_indexes |-> <<>>, p_value |-> NaN]
    ELSE [readers |-> p.readers, status |-> dunn.status, error |-> dunn.error,
          passed |-> Some(averages), subjects |-> p.subjects,
          interval_indexes |->
              IF dunn.status = "ok"
              THEN p.subjects[Len(p.subjects)].interval_indexes ELSE <<>>,
          p_value |-> friedman.pvalue]

PremortemTransposed(p, accepts) ==
    PremortemTests(p, Transposed(p.averages),
                   friedmanchisquare(Transposed(p.averages)),
                   posthoc_dunn(Transposed(p.averages), accepts))

\* PigsPool.premortem_statistics: the interval indexes of the last reader,
\* the Friedman p-value and the Dunn matrix, or the error raised.
premortem_statistics(pigs, rs, n_last_intervals, selected_property, accepts) ==
    PremortemTransposed(
        PremortemAverages(pigs, n_last_intervals, selected_property, 1,
            [readers |-> rs, status |-> "ok", error |-> NoError,
             averages |-> <<>>, subjects |-> <<>>]),
        accepts)

---------------------------------------------------------------------------
(* PigsGroups: an ordered dictionary of pools keyed by group name.  The    *)
(* groups are the sequence of the entries; an entry names its pool.        *)

NewGroups == <<>>

GroupNames(gs) == {gs[k].group : k \in 1 .. Len(gs)}

\* A slip: self._groups[group] = pigs_pool, whether the name is registered
\* or not.
ReplaceGroup(gs, group, pigs_pool) ==
    IF group \in GroupNames(gs)
    THEN [k \in 1 .. Len(gs) |->
             IF gs[k].group = group THEN [gs[k] EXCEPT !.pool = pigs_pool]
             ELSE gs[k]]
    ELSE Append(gs, [group |-> group, pool |-> pigs_pool])

add_group(gs, group, pigs_pool) ==
    IF group \in GroupNames(gs) THEN gs
    ELSE Append(gs, [group |-> group, pool |-> pigs_pool])

PoolOfGroup(gs, group) ==
    gs[CHOOSE k \in 1 .. Len(gs) : gs[k].group = group].pool

\* The orders a list made from a set can have.
Orders(S) ==
    {s \in [1 .. Cardinality(S) -> S] :
        \A i, j \in 1 .. Cardinality(S) : i # j => s[i] # s[j]}

\* selected_groups = None selects all the groups in the order they were
\* added; a selection is intersected with the group names as a set, and the
\* list made from that set has any order.
SelectedGroups(gs, selected_groups) ==
    IF IsNone(selected_groups) THEN {[k \in 1 .. Len(gs) |-> gs[k].group]}
    ELSE Orders(GroupNames(gs) \cap Get(selected_groups))

\* The pool of this version hands the groups a timeline with its matrix: one
\* entry per row of the matrix.
Timeline(averages) == [i \in 1 .. Len(averages) |-> i]

\* The p-value of a test is kept as the test and the samples it was given.
mannwhitneyu(samples) ==
    Some([test |-> "mannwhitneyu", alternative |-> "two-sided",
          samples |-> samples])

kruskal(samples) == Some([test |-> "kruskal", samples |-> samples])

\* [v for v in averages[i, :] if not np.isnan(v)], and no value when the
\* matrix of the group has no row i
ValuesAt(averages, i) ==
    IF i >= Len(averages) THEN <<>>
    ELSE LET NotNaN(v) == ~IsNone(v)
             row == SelectSeq(Iloc(averages, i), NotNaN)
         IN  [c \in 1 .. Len(row) |-> Get(row[c])]

\* uncomplete_group, set as soon as one group has no value at the position
UncompleteGroup(values) == \E g \in 1 .. Len(values) : values[g] = <<>>

\* The p-value at one position, from the values of each group there.
PValue(values) ==
    LET HasValues(v) == v # <<>>
        with_values == SelectSeq(values, HasValues)
        n_groups == Len(with_values)
    IN  IF UncompleteGroup(values) THEN NaN
        ELSE IF n_groups < 2 THEN NaN
        ELSE IF n_groups = 2 THEN mannwhitneyu(with_values)
        ELSE kruskal(with_values)

\* One row of p_values_per_time: the number of values of each group at
\* position i and the p-value.
PValuesAt(averages_per_group, i) ==
    [n_values_per_group |->
         [g \in 1 .. Len(averages_per_group) |->
             Len(ValuesAt(averages_per_group[g], i))],
     p_value |->
         PValue([g \in 1 .. Len(averages_per_group) |->
                    ValuesAt(averages_per_group[g], i)])]

\* What the loop over the selected groups has after the pool of a group
\* answered with g; requested counts the get_statistics calls made.
GroupAnswer(acc, g) ==
    IF g.status = "raise"
    THEN [acc EXCEPT !.readers = g.readers, !.status = "raise",
                     !.requested = @ + 1,
                     !.error = IF g.error.type = "PigsPoolError"
                               THEN Error("PigsGroupsError", 0, 0)
                               ELSE g.error]
    ELSE [acc EXCEPT
             !.readers = g.readers,
             !.requested = @ + 1,
             !.averages_per_group = Append(@, g.value),
             !.longest_timeline =
                 IF Len(Timeline(g.value)) > Len(@) THEN Timeline(g.value)
                 ELSE @]

\* The loop over the selected groups, from the k-th on.
RECURSIVE GroupAverages(_, _, _, _, _, _, _)
GroupAverages(gs, ps, selected_property, selected_groups, interval_indexes, k, acc) ==
    IF k > Len(selected_groups) \/ acc.status = "raise" THEN acc
    ELSE GroupAverages(gs, ps, selected_property, selected_groups,
             interval_indexes, k + 1,
             GroupAnswer(acc,
                 get_statistics(ps[PoolOfGroup(gs, selected_groups[k])],
                     acc.readers, selected_property, "mean",
                     interval_indexes)))

\* The table of p-values, one row per position of the longest timeline.
GroupEffect(acc) ==
    IF acc.status = "raise"
    THEN [readers |-> acc.readers, status |-> "raise", error |-> acc.error,
          requested |-> acc.requested,
          averages_per_group |-> <<>>, p_values |-> <<>>]
    ELSE [readers |-> acc.readers, status |-> "ok", error |-> NoError,
          requested |-> acc.requested,
          averages_per_group |-> acc.averages_per_group,
          p_values |-> [t \in 1 .. Len(acc.longest_timeline) |->
                           PValuesAt(acc.averages_per_group, t - 1)]]

\* A slip: only an empty selection is refused.
NoGroupSelected(selected_groups) == Len(selected_groups) < 1

\* if len(selected_groups) < 2: raise PigsGroupsError
TooFewGroups(selected_groups) == Len(selected_groups) < 2

\* What the loop over the selected groups starts with.
NoGroupAsked(rs) ==
    [readers |-> rs, status |-> "ok", error |-> NoError, requested |-> 0,
     averages_per_group |-> <<>>, longest_timeline |-> <<>>]

\* What a group-effect evaluation gives when it refuses the selection.
GroupsRefused(rs) ==
    [readers |-> rs, status |-> "raise",
     error |-> Error("PigsGroupsError", 0, 0), requested |-> 0,
     averages_per_group |-> <<>>, p_values |-> <<>>]

\* PigsGroups.evaluate_global_group_effect on the list selected_groups that
\* its first lines make of the selection.
evaluate_global_group_effect(gs, ps, rs, selected_property, selected_groups, interval_indexes) ==
    IF TooFewGroups(selected_groups) THEN GroupsRefused(rs)
    ELSE GroupEffect(
             GroupAverages(gs, ps, selected_property, selected_groups,
                 interval_indexes, 1, NoGroupAsked(rs)))

\* The loop of evaluate_pairwise_group_effect over the positions of the
\* longest timeline: the list groups that the values are appended to is
\* bound nowhere in that method, so the first group that has values at a
\* position ends the call with a NameError; a call that meets no value
\* gives a frame of NaN per position.
PairwiseGroupEffect(acc) ==
    IF acc.status = "raise"
    THEN [readers |-> acc.readers, status |-> "raise", error |-> acc.error,
          requested |-> acc.requested,
          averages_per_group |-> <<>>, p_values |-> <<>>]
    ELSE IF \E t \in 1 .. Len(acc.longest_timeline) :
                \E g \in 1 .. Len(acc.averages_per_group) :
                    ValuesAt(acc.averages_per_group[g], t - 1) # <<>>
    THEN [readers |-> acc.readers, status |-> "raise",
          error |-> Error("NameError", 0, 0), requested |-> acc.requested,
          averages_per_group |-> acc.averages_per_group, p_values |-> <<>>]
    ELSE [readers |-> acc.readers, status |-> "ok", error |-> NoError,
          requested |-> acc.requested,
          averages_per_group |-> acc.averages_per_group,
          p_values |-> [t \in 1 .. Len(acc.longest_timeline) |->
                           [n_values_per_group |->
                                [g \in 1 .. Len(acc.averages_per_group) |-> 0],
                            p_value |-> NaN]]]

\* PigsGroups.evaluate_pairwise_group_effect on the list selected_groups
\* that its first lines make of the selection.
evaluate_pairwise_group_effect(gs, ps, rs, selected_property, selected_groups, interval_indexes) ==
    IF TooFewGroups(selected_groups) THEN GroupsRefused(rs)
    ELSE PairwiseGroupEffect(
             GroupAverages(gs, ps, selected_property, selected_groups,
                 interval_indexes, 1, NoGroupAsked(rs)))

\* What the loop of PigsGroups.evaluate_global_time_effect has after round i
\* (from 0), the pool of group having answered with call: a PigsPoolError is
\* logged and the group left out, any other exception leaves the method,
\* and the finally clause sets the progress bar to i + 1 in every case.
GroupTimeAnswer(acc, i, group, call) ==
    IF call.status = "raise" /\ call.error.type = "PigsPoolError"
    THEN [acc EXCEPT !.readers = call.readers, !.progress = i + 1]
    ELSE IF call.status = "raise"
    THEN [acc EXCEPT !.readers = call.readers, !.progress = i + 1,
                     !.status = "raise", !.error = call.error]
    ELSE [acc EXCEPT !.readers = call.readers, !.progress = i + 1,
                     !.valid_groups = Append(@, group),
                     !.p_values = Append(@, call.p_value)]

\* The loop over enumerate(selected_groups), from round i on.
RECURSIVE GroupsTimeEffect(_, _, _, _, _, _, _)
GroupsTimeEffect(gs, ps, selected_property, selected_groups, interval_indexes, i, acc) ==
    IF i >= Len(selected_groups) \/ acc.status = "raise" THEN acc
    ELSE GroupsTimeEffect(gs, ps, selected_property, selected_groups,
             interval_indexes, i + 1,
             GroupTimeAnswer(acc, i, Iloc(selected_groups, i),
                 evaluate_global_time_effect(
                     ps[PoolOfGroup(gs, Iloc(selected_groups, i))],
                     acc.readers, selected_property, interval_indexes)))

\* PigsGroups.evaluate_global_time_effect on the list selected_groups that
\* its first lines make of the selection: valid_groups and p_values, or the
\* exception that left the loop; progress_bar.reset puts the progress at 0.
PigsGroups_evaluate_global_time_effect(gs, ps, rs, selected_property, selected_groups, interval_indexes) ==
    GroupsTimeEffect(gs, ps, selected_property, selected_groups,
        interval_indexes, 0,
        [readers |-> rs, status |-> "ok", error |-> NoError,
         valid_groups |-> <<>>, p_values |-> <<>>, progress |-> 0])

\* pool.has_reader(filename): PigsPool defines no has_reader, so the lookup
\* of the attribute on a pool raises AttributeError.
has_reader(pigs, filename) ==
    [status |-> "raise", error |-> Error("AttributeError", 0, filename),
     value |-> FALSE]

\* The loop of PigsGroups.remove_reader over the pools of the groups, from
\* the k-th group on; ps are the pools.
RECURSIVE GroupsRemoveReader(_, _, _, _)
GroupsRemoveReader(gs, ps, filename, k) ==
    IF k > Len(gs) THEN [pools |-> ps, status |-> "ok", error |-> NoError]
    ELSE LET has == has_reader(ps[gs[k].pool], filename)
         IN  IF has.status = "raise"
             THEN [pools |-> ps, status |-> "raise", error |-> has.error]
             ELSE IF ~has.value
             THEN GroupsRemoveReader(gs, ps, filename, k + 1)
             ELSE GroupsRemoveReader(gs,
                      [ps EXCEPT ![gs[k].pool] = remove_reader(@, filename)],
                      filename, k + 1)

PigsGroups_remove_reader(gs, ps, filename) ==
    GroupsRemoveReader(gs, ps, filename, 1)

---------------------------------------------------------------------------
(* The header of the file.  A line is the sequence of its characters, a    *)
(* run of characters that are neither blank nor a semicolon being kept as  *)
(* one word; a field is the sequence of the characters of one cell.        *)

Blank == " "
Semicolon == ";"

RECURSIVE StripLeft(_)
StripLeft(s) ==
    IF s # <<>> /\ Head(s) = Blank THEN StripLeft(Tail(s)) ELSE s

RECURSIVE StripRight(_)
StripRight(s) ==
    IF s # <<>> /\ s[Len(s)] = Blank
    THEN StripRight(SubSeq(s, 1, Len(s) - 1)) ELSE s

\* str.strip()
Strip(s) == StripRight(StripLeft(s))

\* line[:-1] if line.endswith(';') else line
WithoutLastSemicolon(line) ==
    IF line # <<>> /\ line[Len(line)] = Semicolon
    THEN SubSeq(line, 1, Len(line) - 1) ELSE line

\* line.split(';'): one cell more than the line has semicolons
RECURSIVE Split(_)
Split(line) ==
    IF line = <<>> THEN <<<<>>>>
    ELSE IF Head(line) = Semicolon THEN <<<<>>>> \o Split(Tail(line))
    ELSE LET rest == Split(Tail(line))
         IN  <<<<Head(line)>> \o Head(rest)>> \o Tail(rest)

\* if v.strip(): the cells that are empty or blank are dropped
NotEmpty(v) == v # <<>>

\* [v.strip() for v in line.split(';') if v.strip()] on a line that was
\* stripped and freed of one final semicolon
Fields(line) ==
    LET cells == Split(WithoutLastSemicolon(Strip(line)))
    IN  SelectSeq([k \in 1 .. Len(cells) |-> Strip(cells[k])], NotEmpty)

\* collections.OrderedDict(zip(fields, values)): the pairs up to the end of
\* the shorter list, a later pair replacing an earlier one of the same key.
ZipDict(fields, values) ==
    LET n == Min({Len(fields), Len(values)})
    IN  [name \in {fields[k] : k \in 1 .. n} |->
            values[Max({k \in 1 .. n : fields[k] = name})]]

\* {**pig_id_dict, **general_info_dict}
MergeDict(pig_id_dict, general_info_dict) ==
    [name \in (DOMAIN pig_id_dict) \cup (DOMAIN general_info_dict) |->
        IF name \in DOMAIN general_info_dict THEN general_info_dict[name]
        ELSE pig_id_dict[name]]

\* The header lines of the constructor: the parameters it keeps, or the
\* error it raises when Tinitial or Tfinal has no entry.
read_header(general_fields_line, general_line, pig_id_fields_line, pig_id_line) ==
    LET general_info_dict == ZipDict(Fields(general_fields_line),
                                     Fields(general_line))
        pig_id_dict == ZipDict(Fields(pig_id_fields_line), Fields(pig_id_line))
    IN  IF <<"Tinitial">> \notin DOMAIN general_info_dict
        THEN [status |-> "raise",
              error |-> Error("PiCCO2FileReaderError", 0, 0), value |-> <<>>]
        ELSE IF <<"Tfinal">> \notin DOMAIN general_info_dict
        THEN [status |-> "raise",
              error |-> Error("PiCCO2FileReaderError", 0, 0), value |-> <<>>]
        ELSE [status |-> "ok", error |-> NoError,
              value |-> MergeDict(pig_id_dict, general_info_dict)]

---------------------------------------------------------------------------
(* The outcome of a call, as the caller observes it. *)

Outcome(op, filename, property, indexes, intervals, status, error, value, scanned, chunks) ==
    [op |-> op, filename |-> filename, property |-> property,
     indexes |-> indexes, intervals |-> intervals, status |-> status,
     error |-> error, value |-> value, scanned |-> scanned, chunks |-> chunks,
     \* what the call followed: the previous call, whether this call repeats
     \* it with the same arguments after it returned, and the number of
     \* properties whose statistics were cached when the call was made, and
     \* when the previous call set record intervals
     follows |-> "", repeats |-> FALSE, cached |-> 0, cleared |-> 0]

NoCall == Outcome("", 0, "", None, <<>>, "ok", NoError, <<>>, 0, <<>>)

---------------------------------------------------------------------------
(* Inputs. *)

EndOfDay == SecondsPerDay - 1

\* Sample times: the first sample at midnight, then gaps of 1 .. MaxGap ticks.
RECURSIVE TimesOfGaps(_, _)
TimesOfGaps(first, gaps) ==
    IF gaps = <<>> THEN <<first>>
    ELSE <<first>> \o TimesOfGaps(first + Head(gaps) * Tick, Tail(gaps))

TimeTables ==
    {TimesOfGaps(0, gaps) :
        gaps \in UNION {[1 .. n -> 1 .. MaxGap] : n \in 0 .. (MaxRows - 1)}}

\* One sample per tick.
RegularTable == TimesOfGaps(0, [i \in 1 .. (MaxRows - 1) |-> 1])

ParameterTimes == {k * Tick : k \in 0 .. MaxTick}

\* A column whose cell of row i holds the number base + i when i is in valid,
\* and a text that does not parse otherwise.
Column(n, valid, base) ==
    [i \in 1 .. n |-> IF (i - 1) \in valid THEN Some(base + i - 1) ELSE None]

Window(start, end, record, offset) ==
    [start |-> start, end |-> end, record |-> record, offset |-> offset]

\* A window that starts after the last sample any table holds.
LateStart == (MaxRows * MaxGap + 1) * Tick

Windows ==
    {Window(0, EndOfDay, 1, 0),
     Window(0, EndOfDay, 1, Tick),
     Window(0, EndOfDay, Tick, 0),
     Window(0, 2 * Tick, 1, 0),
     Window(2 * Tick, EndOfDay, 1, 0),
     Window(LateStart, EndOfDay, 1, 0)}

WindowLists == {<<w>> : w \in Windows} \cup {<<v, w>> : v, w \in Windows}

---------------------------------------------------------------------------
(* The calls on one reader. *)

\* The outcome o of a call, with what the call followed.
Following(o, reader) ==
    [o EXCEPT
        !.follows = result.op,
        !.repeats = /\ result.op = o.op
                    /\ result.status = "ok"
                    /\ result.filename = o.filename
                    /\ result.property = o.property
                    /\ result.indexes = o.indexes
                    /\ result.intervals = o.intervals,
        !.cached = Cardinality({p \in DOMAIN reader.statistics :
                                   ~IsNone(reader.statistics[p])}),
        !.cleared = IF result.op = "set_record_intervals"
                    THEN result.cached ELSE 0]

SetRecordIntervals(f, intervals) ==
    \E r \in {set_record_intervals(readers[f], intervals)} :
        /\ readers' = [readers EXCEPT ![f] = r.reader]
        /\ result' = Following(
                         Outcome("set_record_intervals", f, "", None, intervals,
                                 r.status, r.error, r.reader.record_intervals,
                                 0, r.chunks),
                         readers[f])
        /\ UNCHANGED <<pools, groups>>

GetDescriptiveStatistics(f, selected_property, interval_indexes) ==
    \E r \in {get_descriptive_statistics(readers[f], selected_property,
                                        interval_indexes)} :
        /\ readers' = [readers EXCEPT ![f] = r.reader]
        /\ result' = Following(
                         Outcome("get_descriptive_statistics", f,
                                 selected_property, interval_indexes, <<>>,
                                 r.status, r.error, r.value, r.scanned, <<>>),
                         readers[f])
        /\ UNCHANGED <<pools, groups>>

GetCoverages(f, selected_property) ==
    \E r \in {get_coverages(readers[f], selected_property)} :
        /\ result' = Following(
                         Outcome("get_coverages", f, selected_property, None,
                                 <<>>, r.status, r.error, r.value, 0, <<>>),
                         readers[f])
        /\ UNCHANGED <<readers, pools, groups>>

SetValidIntervals(f, selected_property) ==
    \E r \in {set_valid_intervals(readers[f], selected_property)} :
        /\ result' = Following(
                         Outcome("set_valid_intervals", f, selected_property,
                                 None, <<>>, r.status, r.error, r.value, 0,
                                 <<>>),
                         readers[f])
        /\ UNCHANGED <<readers, pools, groups>>

---------------------------------------------------------------------------
(* Segmentation of one recording, as the reader's script does it: a reader *)
(* is constructed from any table and set_record_intervals is called on it  *)
(* with any window list.  The call reads nothing an earlier call wrote     *)
(* (the cache and the record intervals are reset first, first_record_index *)
(* is a local), so one call per recording covers it.                       *)

InitSegment ==
    /\ \E Time \in TimeTables, Tinitial \in ParameterTimes, Tfinal \in ParameterTimes :
          /\ Tinitial <= Tfinal
          /\ ValidTMinus10(Time, Tinitial)
          /\ readers = [f \in {1} |->
                NewReader(f, Time,
                          [p \in {"APs"} |-> Column(Len(Time), 0 .. Len(Time), 1)],
                          Tinitial, Tfinal)]
    /\ pools = <<>>
    /\ groups = <<>>
    /\ result = NoCall

SegmentRecording ==
    /\ result = NoCall
    /\ \E intervals \in WindowLists : SetRecordIntervals(1, intervals)

NextSegment == SegmentRecording

SpecSegment == InitSegment /\ [][NextSegment]_vars

---------------------------------------------------------------------------
(* Record intervals: claims C4, C5, C6. *)

SegmentationDone == result.op = "set_record_intervals"

\* Every interval is non-empty and each ends where the next starts, or before.
Ordered(ivs) ==
    /\ \A k \in 1 .. Len(ivs) : ivs[k][1] < ivs[k][2]
    /\ \A k \in 1 .. (Len(ivs) - 1) : ivs[k][2] <= ivs[k + 1][1]

\* C4 as stated: after set_record_intervals, for any list of window specs,
\* every record interval has first < last and the record intervals are
\* pairwise non-overlapping and ascending, also across the window specs of
\* the call.
C4_OrderedAcrossWindows ==
    SegmentationDone =>
        Ordered(readers[result.filename].record_intervals)

\* C4 as amended: after set_record_intervals every record interval has
\* first < last, and the intervals appended for one window spec are pairwise
\* non-overlapping and ascending; record_intervals is their concatenation in
\* the order of the window specs.
C4_OrderedWithinWindow ==
    SegmentationDone =>
        /\ \A k \in 1 .. Len(result.chunks) : Ordered(result.chunks[k])
        /\ readers[result.filename].record_intervals = Concat(result.chunks)

\* Two windows of one call each produced two intervals or more.
C4_Witness ==
    /\ SegmentationDone
    /\ Len(result.chunks) = 2
    /\ \A k \in 1 .. 2 : Len(result.chunks[k]) >= 2

\* The anchor of the cycle that appended an interval is the starting_index
\* the interval is appended with.
Anchor(interval) == interval[1]

ElapsedFrom(reader, anchor, row) ==
    Seconds(Iloc(reader.Time, row) - Iloc(reader.Time, anchor))

\* C5: every interval that set_record_intervals produces starts at the first
\* row whose elapsed time from the anchor of its cycle is >= offset_seconds:
\* the rows of the first offset_seconds after the anchor are discarded, and
\* the interval does not start at the anchor when offset_seconds > 0.
C5_OffsetDiscardedFirst ==
    SegmentationDone =>
        \A k \in 1 .. Len(result.chunks) :
            \A n \in 1 .. Len(result.chunks[k]) :
                LET reader == readers[result.filename]
                    interval == result.chunks[k][n]
                    offset == result.intervals[k].offset
                IN  interval[1] =
                        Min({row \in Range(Anchor(interval), Len(reader.Time)) :
                                ElapsedFrom(reader, Anchor(interval), row) >= offset})

\* What set_record_intervals([spec]) alone leaves in record_intervals.
Alone(reader, spec) == RecordIntervals(reader, <<spec>>)

\* C6: the record intervals left by a set_record_intervals([s1, ..., sk])
\* that returns are the concatenation, in the order of the specs, of the
\* record intervals that set_record_intervals([si]) alone leaves for each i.
C6_WindowsIndependent ==
    (SegmentationDone /\ result.status = "ok") =>
        LET reader == readers[result.filename]
        IN  reader.record_intervals =
                Concat([k \in 1 .. Len(result.intervals) |->
                           Concat(Alone(reader, result.intervals[k]).chunks)])

\* The window specs of the call that match no row: no row from the
\* reference row up to the Tfinal row has an elapsed time in [start, end).
Unmatched(reader, intervals) ==
    {k \in 1 .. Len(intervals) :
        RowsInWindow(reader, intervals[k].start, intervals[k].end) = {}}

\* C16: when a window spec passed to set_record_intervals matches no row,
\* the call raises PiCCO2FileReaderError: it raises no untyped error and
\* makes no interval for that spec from the row indexes of another spec.
C16_UnmatchedWindowTypedError ==
    (/\ SegmentationDone
     /\ Unmatched(readers[result.filename], result.intervals) # {}) =>
        /\ result.status = "raise"
        /\ result.error.type = "PiCCO2FileReaderError"

\* The reference time as stated: Tinitial - 10 minutes, or the time of the
\* first sample when Tinitial - 10 minutes precedes it.
StatedReference(Time, Tinitial) ==
    IF Tinitial - TenMinutes < Iloc(Time, 0) THEN Iloc(Time, 0)
    ELSE Tinitial - TenMinutes

\* C18: the reference time of a reader is Tinitial - 10 minutes, except
\* that it is the time of the first sample if and only if Tinitial - 10
\* minutes precedes that sample; t_minus_10_index is the index of the first
\* row, in ascending time order, whose time is at or after the reference
\* time.
C18_ReferenceRow ==
    \A f \in DOMAIN readers :
        LET reader == readers[f]
            reference == StatedReference(reader.Time, reader.Tinitial)
            later == {i \in Range(0, Len(reader.Time)) :
                         Iloc(reader.Time, i) >= reference}
        IN  later # {} => reader.t_minus_10_index = Min(later)

\* C23: every record interval (first, last) that set_record_intervals makes
\* for a window of record time R covers at most R seconds: the time of row
\* last - 1 minus the time of row first is <= R, whatever the spacing of
\* the samples, gaps longer than R + offset included.
C23_IntervalWithinRecordTime ==
    SegmentationDone =>
        \A k \in 1 .. Len(result.chunks) :
            \A n \in 1 .. Len(result.chunks[k]) :
                LET reader == readers[result.filename]
                    interval == result.chunks[k][n]
                IN  Iloc(reader.Time, interval[2] - 1)
                        - Iloc(reader.Time, interval[1])
                            <= result.intervals[k].record

\* An interval of two rows was made for a window, in a table that has a gap
\* longer than the record time and the offset of the window together.
C23_Witness ==
    /\ SegmentationDone
    /\ LET reader == readers[result.filename]
       IN  \E k \in 1 .. Len(result.chunks) :
               /\ \E n \in 1 .. Len(result.chunks[k]) :
                      result.chunks[k][n][2] - result.chunks[k][n][1] >= 2
               /\ \E i \in 1 .. (Len(reader.Time) - 1) :
                      reader.Time[i + 1] - reader.Time[i]
                          > result.intervals[k].record
                                + result.intervals[k].offset

\* The indexes of the record intervals whose last row, row last - 1, has a
\* time strictly later than time.
EndingLater(reader, time) ==
    {i \in Range(0, Len(reader.record_intervals)) :
        Iloc(reader.Time, Iloc(reader.record_intervals, i)[2] - 1) > time}

---------------------------------------------------------------------------
(* Statistics of one recording: a reader over a regularly sampled table    *)
(* whose APs column holds any mix of numbers and texts, on which record    *)
(* intervals are set and statistics and coverages are queried in any       *)
(* order.                                                                  *)

Properties == {"APs", "HR"}
UnknownProperty == "XX"

IndexChoices == {None, Some(<<0>>), Some(<<1>>), Some(<<1, 0>>)}

InitStats ==
    /\ \E valid \in SUBSET Range(0, MaxRows) :
          readers = [f \in {1} |->
              NewReader(f, RegularTable,
                        [p \in Properties |->
                            IF p = "APs" THEN Column(MaxRows, valid, 1)
                            ELSE Column(MaxRows, Range(0, MaxRows), 101)],
                        0, MaxTick * Tick)]
    /\ pools = <<>>
    /\ groups = <<>>
    /\ result = NoCall

SearchRecordIntervals == \E w \in Windows : SetRecordIntervals(1, <<w>>)

QueryStatistics ==
    \E p \in Properties \cup {UnknownProperty}, L \in IndexChoices :
        GetDescriptiveStatistics(1, p, L)

QueryCoverages ==
    \E p \in Properties \cup {UnknownProperty} : GetCoverages(1, p)

NextStats == SearchRecordIntervals \/ QueryStatistics \/ QueryCoverages

SpecStats == InitStats /\ [][NextStats]_vars

---------------------------------------------------------------------------
(* Descriptive statistics and their cache: claims C1, C2, C3. *)

StatisticsReturned ==
    result.op = "get_descriptive_statistics" /\ result.status = "ok"

\* [i + 1 for i in L]
OneBased(L) == [k \in 1 .. Len(L) |-> L[k] + 1]

\* C1: a successful get_descriptive_statistics(v, interval_indexes = L)
\* returns sequences with exactly one entry per index of L, in the order of
\* L, 'intervals' being [i + 1 for i in L] (L defaults to all the current
\* record intervals), whatever earlier calls for v asked for.
C1_ExactlyRequestedIntervals ==
    StatisticsReturned =>
        LET L == SelectedIndexes(readers[result.filename], result.indexes)
        IN  /\ result.value.intervals = OneBased(L)
            /\ Len(result.value.data) = Len(L)
            /\ Len(result.value.averages) = Len(L)

SameQuery(a, b) ==
    /\ a.op = "get_descriptive_statistics"
    /\ b.op = "get_descriptive_statistics"
    /\ a.filename = b.filename
    /\ a.property = b.property
    /\ a.indexes = b.indexes

\* C2: when a get_descriptive_statistics call has returned and the next call
\* on the reader is the same query (no set_record_intervals in between),
\* the second call returns the same statistics and scans no data row.
C2_RepeatedQueryCached ==
    [][(SameQuery(result, result') /\ result.status = "ok") =>
          /\ result'.status = "ok"
          /\ result'.value = result.value
          /\ result'.scanned = 0]_vars

\* A query over two intervals was repeated and answered.
C2_Witness ==
    /\ StatisticsReturned
    /\ result.repeats
    /\ Len(result.value.intervals) = 2

\* The statistics computed from the record intervals the reader holds.
Fresh(reader, selected_property, interval_indexes) ==
    ComputeStatistics(reader, selected_property,
                      SelectedIndexes(reader, interval_indexes), 1,
                      EmptyStatistics, 0).entry

\* C3: every set_record_intervals call, returning or raising, leaves the
\* statistics cache of the reader empty for all properties, and the
\* first query after it returns the statistics of the new record intervals.
C3_IntervalsResetCache ==
    /\ [](SegmentationDone =>
            \A p \in DOMAIN readers[result.filename].statistics :
                IsNone(readers[result.filename].statistics[p]))
    /\ [][(SegmentationDone /\ result'.op = "get_descriptive_statistics"
                            /\ result'.status = "ok") =>
            /\ result'.scanned > 0
            /\ result'.value = Fresh(readers'[result'.filename],
                                     result'.property, result'.indexes)]_vars

\* The statistics of both properties were cached when record intervals were
\* set again, and the query that followed was answered.
C3_Witness ==
    /\ StatisticsReturned
    /\ result.follows = "set_record_intervals"
    /\ result.cleared = 2
    /\ result.value.intervals # <<>>

\* The positions of the list L whose record interval holds no cell of the
\* property that parses as a float.
WithoutData(reader, selected_property, L) ==
    {k \in 1 .. Len(L) :
        LET interval == Iloc(reader.record_intervals,
                             ListIndex(L[k], Len(reader.record_intervals)))
        IN  \A j \in Range(interval[1], interval[2]) :
                ~ParsesAsFloat(Iloc(reader.columns[selected_property], j))}

\* C13: get_descriptive_statistics raises PiCCO2FileReaderError whenever a
\* requested record interval holds no cell of the variable that parses as a
\* float, the error naming the 1-based index of the first such interval and
\* the filename of the subject; no statistic is reported for such an
\* interval.
C13_EmptyIntervalFails ==
    (result.op = "get_descriptive_statistics" /\ result.property \in Properties) =>
        LET reader == readers[result.filename]
            L == SelectedIndexes(reader, result.indexes)
            n == Len(reader.record_intervals)
        IN  (/\ \A k \in 1 .. Len(L) : ValidIndex(L[k], n)
             /\ WithoutData(reader, result.property, L) # {}) =>
                /\ result.status = "raise"
                /\ result.error =
                       Error("PiCCO2FileReaderError",
                             L[Min(WithoutData(reader, result.property, L))] + 1,
                             result.filename)

\* C17: get_descriptive_statistics and get_coverages raise
\* PiCCO2FileReaderError when the variable asked for is not a column of the
\* table of the subject, with or without record intervals set, and leave
\* the record intervals and the statistics cache as they were.
C17_UnknownVariableTypedError ==
    [][(/\ result'.op \in {"get_descriptive_statistics", "get_coverages"}
        /\ result'.property \notin DOMAIN readers[result'.filename].columns) =>
          /\ result'.status = "raise"
          /\ result'.error.type = "PiCCO2FileReaderError"
          /\ readers' = readers]_vars

---------------------------------------------------------------------------
(* Valid runs of one recording: a reader over a table of 1 .. MaxRows + 1  *)
(* rows whose two columns hold any mix of numbers and texts, on which the  *)
(* valid intervals of either column are searched.                          *)

InitValid ==
    /\ \E n \in 1 .. (MaxRows + 1) :
       \E valid \in [Properties -> SUBSET Range(0, n)] :
          readers = [f \in {1} |->
              NewReader(f, TimesOfGaps(0, [i \in 1 .. (n - 1) |-> 1]),
                        [p \in Properties |-> Column(n, valid[p], 1)],
                        0, MaxTick * Tick)]
    /\ pools = <<>>
    /\ groups = <<>>
    /\ result = NoCall

SearchValidIntervals == \E p \in Properties : SetValidIntervals(1, p)

NextValid == SearchValidIntervals

SpecValid == InitValid /\ [][NextValid]_vars

---------------------------------------------------------------------------
(* Valid runs: claim C21. *)

\* The rows of the half-open interval
RowsOf(interval) == Range(interval[1], interval[2])

\* C21: the valid runs of a variable are half-open intervals that partition
\* exactly the rows whose cell parses as a float: the union of their rows
\* is the set of valid rows, no two runs overlap, each run is a maximal
\* block of consecutive valid rows, and a table without valid row gives an
\* empty list and no error; the cells 120, abc, 118, 119, xyz give
\* [(0, 1), (2, 4)].
C21_ValidRunsPartition ==
    /\ ValidRuns(<<Some(120), None, Some(118), Some(119), None>>, 0, None, <<>>)
           = <<(<<0, 1>>), (<<2, 4>>)>>
    /\ result.op = "set_valid_intervals" =>
           LET column == readers[result.filename].columns[result.property]
               valid == {i \in Range(0, Len(column)) : Iloc(column, i) # <<>>}
               runs == result.value
           IN  /\ result.status = "ok"
               /\ UNION {RowsOf(runs[k]) : k \in 1 .. Len(runs)} = valid
               /\ \A k \in 1 .. Len(runs) :
                      /\ runs[k][1] < runs[k][2]
                      /\ (runs[k][1] - 1) \notin valid
                      /\ runs[k][2] \notin valid
               /\ \A j, k \in 1 .. Len(runs) :
                      j < k => runs[j][2] < runs[k][1]
               /\ valid = {} => runs = <<>>

\* The valid intervals were searched in a column that holds two runs, the
\* first of two rows or more, and that ends with a text.
C21_Witness ==
    /\ result.op = "set_valid_intervals"
    /\ Len(result.value) = 2
    /\ result.value[1][2] - result.value[1][1] >= 2
    /\ result.value[2][2] < Len(readers[result.filename].Time)

---------------------------------------------------------------------------
(* The calls on a pool. *)

\* The outcome of a pool call, as the caller observes it: r is what the call
\* gave, args are the arguments it was made with, pigs are the subjects of
\* the pool when the call was made.
PoolOutcome(op, pool, args, r) ==
    [Outcome(op, 0, args.property, args.indexes, <<>>, r.status, r.error,
             r.value, 0, <<>>) EXCEPT !.follows = result.op]
        @@ [pool |-> pool, pigs |-> pools[pool],
            statistics |-> args.statistics,
            n_last_intervals |-> args.n_last_intervals,
            subjects |-> r.subjects, passed |-> r.passed,
            valid_intervals |-> r.valid_intervals, p_value |-> r.p_value,
            interval_indexes |-> r.interval_indexes]

PoolArguments(property, statistics, indexes, n_last_intervals) ==
    [property |-> property, statistics |-> statistics, indexes |-> indexes,
     n_last_intervals |-> n_last_intervals]

\* What a pool call gave, with the fields that call does not have left empty.
PoolReturn(r, value, subjects, passed, valid_intervals, p_value, interval_indexes) ==
    [status |-> r.status, error |-> r.error, value |-> value,
     subjects |-> subjects, passed |-> passed,
     valid_intervals |-> valid_intervals, p_value |-> p_value,
     interval_indexes |-> interval_indexes]

AddReader(pool, f) ==
    /\ pools' = [pools EXCEPT ![pool] = add_reader(pools[pool], f)]
    /\ result' = [PoolOutcome("add_reader", pool,
                      PoolArguments("", "", None, 0),
                      PoolReturn([status |-> "ok", error |-> NoError], <<>>,
                                 <<>>, None, <<>>, NaN, <<>>))
                     EXCEPT !.filename = f]
    /\ UNCHANGED <<readers, groups>>

RemoveReader(pool, f) ==
    /\ pools' = [pools EXCEPT ![pool] = remove_reader(pools[pool], f)]
    /\ result' = [PoolOutcome("remove_reader", pool,
                      PoolArguments("", "", None, 0),
                      PoolReturn([status |-> "ok", error |-> NoError], <<>>,
                                 <<>>, None, <<>>, NaN, <<>>))
                     EXCEPT !.filename = f]
    /\ UNCHANGED <<readers, groups>>

GetStatistics(pool, selected_property, selected_statistics, interval_indexes) ==
    \E r \in {get_statistics(pools[pool], readers, selected_property,
                             selected_statistics, interval_indexes)} :
        /\ readers' = r.readers
        /\ result' = PoolOutcome("get_statistics", pool,
                         PoolArguments(selected_property, selected_statistics,
                                       interval_indexes, 0),
                         PoolReturn(r, r.value, r.subjects, None, <<>>, NaN,
                                    <<>>))
        /\ UNCHANGED <<pools, groups>>

EvaluateGlobalTimeEffect(pool, selected_property, interval_indexes) ==
    \E r \in {evaluate_global_time_effect(pools[pool], readers,
                  selected_property, interval_indexes)} :
        /\ readers' = r.readers
        /\ result' = PoolOutcome("evaluate_global_time_effect", pool,
                         PoolArguments(selected_property, "mean",
                                       interval_indexes, 0),
                         PoolReturn(r, r.value, <<>>, r.passed, r.valid_intervals,
                                    r.p_value, <<>>))
        /\ UNCHANGED <<pools, groups>>

EvaluatePairwiseTimeEffect(pool, selected_property, interval_indexes) ==
    \E accepts \in BOOLEAN :
    \E r \in {evaluate_pairwise_time_effect(pools[pool], readers,
                  selected_property, interval_indexes, accepts)} :
        /\ readers' = r.readers
        /\ result' = PoolOutcome("evaluate_pairwise_time_effect", pool,
                         PoolArguments(selected_property, "mean",
                                       interval_indexes, 0),
                         PoolReturn(r, r.value, <<>>, r.passed, r.valid_intervals,
                                    r.p_value, <<>>))
        /\ UNCHANGED <<pools, groups>>

PremortemStatistics(pool, n_last_intervals, selected_property) ==
    \E accepts \in BOOLEAN :
    \E r \in {premortem_statistics(pools[pool], readers, n_last_intervals,
                                   selected_property, accepts)} :
        /\ readers' = r.readers
        /\ result' = PoolOutcome("premortem_statistics", pool,
                         PoolArguments(selected_property, "mean", None,
                                       n_last_intervals),
                         PoolReturn(r, <<>>, r.subjects, r.passed, <<>>,
                                    r.p_value, r.interval_indexes))
        /\ UNCHANGED <<pools, groups>>

---------------------------------------------------------------------------
(* A pool of two recordings.  Both are sampled once per tick over          *)
(* MaxRows + 1 rows; the first may hold a text in its first or in its      *)
(* second row, and its Tfinal falls inside the table.  Record intervals    *)
(* are set on each reader on its own, readers enter and leave the pool,    *)
(* and the pool is queried, in any order.                                  *)

PoolTable == TimesOfGaps(0, [i \in 1 .. MaxRows |-> 1])

PoolWindows ==
    {Window(0, EndOfDay, 1, 0), Window(0, MaxRows * Tick, 1, 0)}

PoolIndexChoices == {None, Some(<<0>>)}

UnknownStatistics == "foo"

MaxLast == 2

InitPool ==
    /\ \E valid \in {Range(0, MaxRows + 1) \ bad : bad \in {{}, {0}, {1}}} :
          readers = [f \in {1, 2} |->
              NewReader(f, PoolTable,
                        [p \in {"APs"} |->
                            Column(MaxRows + 1,
                                   IF f = 1 THEN valid
                                   ELSE Range(0, MaxRows + 1), 100 * f)],
                        0, IF f = 1 THEN 2 * Tick ELSE MaxTick * Tick)]
    /\ pools = [pool \in {1} |-> NewPool]
    /\ groups = <<>>
    /\ result = NoCall

PoolSearchRecordIntervals ==
    \E f \in DOMAIN readers, w \in PoolWindows : SetRecordIntervals(f, <<w>>)

PoolMembership ==
    \E f \in DOMAIN readers : AddReader(1, f) \/ RemoveReader(1, f)

PoolStatisticsQuery ==
    \E L \in PoolIndexChoices :
        \/ GetStatistics(1, "APs", "mean", L)
        \/ GetStatistics(1, UnknownProperty, "mean", L)
        \/ GetStatistics(1, "APs", UnknownStatistics, L)

PoolTimeEffect ==
    \E L \in PoolIndexChoices :
        \/ EvaluateGlobalTimeEffect(1, "APs", L)
        \/ EvaluatePairwiseTimeEffect(1, "APs", L)

PoolPremortem ==
    \E n \in 0 .. MaxLast : PremortemStatistics(1, n, "APs")

NextPool ==
    \/ PoolSearchRecordIntervals
    \/ PoolMembership
    \/ PoolStatisticsQuery
    \/ PoolTimeEffect

SpecPool == InitPool /\ [][NextPool]_vars

\* The same pool, on which pre-mortem statistics are asked for, after
\* statistics of all the record intervals or not.
PoolEarlierQuery == GetStatistics(1, "APs", "mean", None)

NextPremortem ==
    \/ PoolSearchRecordIntervals
    \/ PoolMembership
    \/ PoolEarlierQuery
    \/ PoolPremortem

SpecPremortem == InitPool /\ [][NextPremortem]_vars

---------------------------------------------------------------------------
(* The pool matrix and the time-effect tests: claims C8, C9. *)

RECURSIVE Ascending(_)
Ascending(S) ==
    IF S = {} THEN <<>> ELSE <<Min(S)>> \o Ascending(S \ {Min(S)})

\* The indexes of the rows of matrix in which no subject is missing.
CompleteRows(matrix) ==
    {i \in Range(0, Len(matrix)) :
        \A c \in 1 .. Len(Iloc(matrix, i)) : ~IsNone(Iloc(matrix, i)[c])}

\* A time-effect evaluation got the pool matrix and ran its test.
TimeEffectTested ==
    /\ result.op \in {"evaluate_global_time_effect",
                      "evaluate_pairwise_time_effect"}
    /\ ~IsNone(result.passed)

Yielding(pigs, rs, selected_property, selected_statistics, interval_indexes) ==
    {k \in 1 .. Len(pigs) :
        LET call == get_descriptive_statistics(rs[pigs[k]], selected_property,
                                               interval_indexes)
        IN  /\ call.status = "ok"
            /\ HasStatistics(call.value, selected_statistics)}

---------------------------------------------------------------------------
(* The subjects of a pool: claim C19. *)

Registered(pigs, filename) == \E k \in 1 .. Len(pigs) : pigs[k] = filename

\* pigs without the entry of filename, the others in the order they have
RECURSIVE Without(_, _)
Without(pigs, filename) ==
    IF pigs = <<>> THEN <<>>
    ELSE (IF Head(pigs) = filename THEN <<>> ELSE <<Head(pigs)>>)
         \o Without(Tail(pigs), filename)

---------------------------------------------------------------------------
(* Pre-mortem interval indexes: claim C10. *)

PremortemAsked == result.op = "premortem_statistics"

\* C10: for every subject whose t_initial_interval_index a and
\* t_final_interval_index b are both valid, and every n_last_intervals
\* n >= 0, the pre-mortem interval indexes are a - 1 followed by the n
\* indexes that end at b, ascending: n + 1 entries whatever the number of
\* record intervals of the subject; n = 2, a = 5, b = 10 gives [4, 9, 10].
C10_PremortemIndexes ==
    /\ PremortemIndexes(5, 10, 2) = <<4, 9, 10>>
    /\ PremortemAsked =>
           \A k \in 1 .. Len(result.subjects) :
               LET subject == result.subjects[k]
                   reader == readers[subject.filename]
                   a == t_initial_interval_index(reader)
                   b == t_final_interval_index(reader)
                   n == result.n_last_intervals
                   indexes == subject.interval_indexes
               IN  (a >= 0 /\ b >= 0) =>
                       /\ Len(indexes) = n + 1
                       /\ indexes[1] = a - 1
                       /\ \A j \in 2 .. (n + 1) : indexes[j] = b - (n + 1 - j)

\* Pre-mortem statistics of the MaxLast last intervals were asked of a pool
\* that holds a subject with valid indexes and more record intervals than
\* are selected.
C10_Witness ==
    /\ PremortemAsked
    /\ result.n_last_intervals = MaxLast
    /\ \E k \in 1 .. Len(result.subjects) :
           LET subject == result.subjects[k]
           IN  /\ subject.t_initial_interval_index >= 0
               /\ subject.t_final_interval_index >= 0
               /\ Len(readers[subject.filename].record_intervals)
                      > Len(subject.interval_indexes)

---------------------------------------------------------------------------
(* Three groups, each with the pool of one recording.  Record intervals    *)
(* are set on each reader on its own, the groups are added in any order,   *)
(* and the global and the pairwise group effect are evaluated for all the  *)
(* groups or for a selection of them.                                      *)

GroupOfPool == <<"A", "B", "C">>

GroupSelections == {None, Some({"A", "B"}), Some({"C", "D"})}

\* The outcome of a groups call, as the caller observes it.
GroupsOutcome(op, selected_property, selection, selected_groups, interval_indexes, r) ==
    [Outcome(op, 0, selected_property, interval_indexes, <<>>, r.status,
             r.error, r.p_values, 0, <<>>) EXCEPT !.follows = result.op]
        @@ [selection |-> selection, selected_groups |-> selected_groups,
            requested |-> r.requested,
            averages_per_group |-> r.averages_per_group,
            \* the groups when the call was made, and the pool add_group
            \* was given
            before |-> groups, pigs_pool |-> 0]

AddGroup(group, pigs_pool) ==
    /\ groups' = add_group(groups, group, pigs_pool)
    /\ result' = [GroupsOutcome("add_group", "", None, <<group>>, None,
                       [status |-> "ok", error |-> NoError, p_values |-> <<>>,
                        requested |-> 0, averages_per_group |-> <<>>])
                     EXCEPT !.pigs_pool = pigs_pool]
    /\ UNCHANGED <<readers, pools>>

EvaluateGlobalGroupEffect(selected_property, selection, interval_indexes) ==
    \E selected_groups \in SelectedGroups(groups, selection) :
    \E r \in {evaluate_global_group_effect(groups, pools, readers,
                  selected_property, selected_groups, interval_indexes)} :
        /\ readers' = r.readers
        /\ result' = GroupsOutcome("evaluate_global_group_effect",
                         selected_property, selection, selected_groups,
                         interval_indexes, r)
        /\ UNCHANGED <<pools, groups>>

EvaluatePairwiseGroupEffect(selected_property, selection, interval_indexes) ==
    \E selected_groups \in SelectedGroups(groups, selection) :
    \E r \in {evaluate_pairwise_group_effect(groups, pools, readers,
                  selected_property, selected_groups, interval_indexes)} :
        /\ readers' = r.readers
        /\ result' = GroupsOutcome("evaluate_pairwise_group_effect",
                         selected_property, selection, selected_groups,
                         interval_indexes, r)
        /\ UNCHANGED <<pools, groups>>

InitGroups ==
    /\ readers = [f \in 1 .. 3 |->
           NewReader(f, PoolTable,
                     [p \in {"APs"} |->
                         Column(MaxRows + 1, Range(0, MaxRows + 1), 100 * f)],
                     0, MaxTick * Tick)]
    /\ pools = [pool \in 1 .. 3 |-> add_reader(NewPool, pool)]
    /\ groups = NewGroups
    /\ result = NoCall

\* The recording of group A may stop one interval before the others.
GroupsSearchRecordIntervals ==
    \E f \in DOMAIN readers, w \in PoolWindows :
        /\ f = 1 \/ w.end = EndOfDay
        /\ SetRecordIntervals(f, <<w>>)

\* A group is added with the pool of its recording; a name that is
\* registered may be added again, with any pool.
GroupsAdded ==
    \E g \in 1 .. 3, pigs_pool \in 1 .. 3 :
        /\ pigs_pool = g \/ GroupOfPool[g] \in GroupNames(groups)
        /\ AddGroup(GroupOfPool[g], pigs_pool)

GroupsEffect ==
    \E selection \in GroupSelections :
        \/ EvaluateGlobalGroupEffect("APs", selection, None)
        \/ EvaluatePairwiseGroupEffect("APs", selection, None)

NextGroups ==
    \/ GroupsSearchRecordIntervals
    \/ GroupsAdded
    \/ GroupsEffect

SpecGroups == InitGroups /\ [][NextGroups]_vars

---------------------------------------------------------------------------
(* The global group effect: claim C7. *)

GroupEffectEvaluated ==
    result.op = "evaluate_global_group_effect" /\ result.status = "ok"

\* The groups of the evaluation that have a value that is not NaN at
\* position i of the timeline.
Qualifying(averages_per_group, i) ==
    {g \in 1 .. Len(averages_per_group) :
        /\ i < Len(averages_per_group[g])
        /\ \E c \in 1 .. Len(Iloc(averages_per_group[g], i)) :
               ~IsNone(Iloc(averages_per_group[g], i)[c])}

TestOf(p_value) == IF IsNone(p_value) THEN "nan" ELSE Get(p_value).test

---------------------------------------------------------------------------
(* The selection of groups: claim C15. *)

\* The registered groups that a selection selects: all of them for None,
\* and the registered names among those given otherwise.
RegisteredSelected(gs, selection) ==
    IF IsNone(selection) THEN GroupNames(gs)
    ELSE GroupNames(gs) \cap Get(selection)

GroupEffectAsked ==
    result.op \in {"evaluate_global_group_effect",
                   "evaluate_pairwise_group_effect"}

\* C15: evaluate_global_group_effect and evaluate_pairwise_group_effect
\* raise PigsGroupsError whenever fewer than 2 registered groups are
\* selected (None selects all the registered groups, names that are not
\* registered do not count): no statistics were requested of any pool and
\* no partial result is returned.
C15_FewerThanTwoGroupsRaises ==
    (/\ GroupEffectAsked
     /\ Cardinality(RegisteredSelected(groups, result.selection)) < 2) =>
        /\ result.status = "raise"
        /\ result.error.type = "PigsGroupsError"
        /\ result.requested = 0
        /\ result.value = <<>>
        /\ result.averages_per_group = <<>>

\* The pairwise group effect was asked for two names of which one only is
\* registered, while other groups are registered too.
C15_Witness ==
    /\ result.op = "evaluate_pairwise_group_effect"
    /\ ~IsNone(result.selection)
    /\ Cardinality(RegisteredSelected(groups, result.selection)) = 1
    /\ Len(groups) >= 2
    /\ result.status = "raise"

---------------------------------------------------------------------------
(* The names of the groups: claim C20. *)

\* C20: add_group with a name that is registered leaves the groups as they
\* were: the pool bound to the name is not replaced, the number and the
\* order of the groups stay the same and nothing is raised; add_group with
\* another name appends the group; the names of the groups are unique
\* after any sequence of add_group calls.
C20_DuplicateGroupIgnored ==
    /\ \A j, k \in 1 .. Len(groups) :
           groups[j].group = groups[k].group => j = k
    /\ result.op = "add_group" =>
           LET group == result.selected_groups[1]
               registered == \E k \in 1 .. Len(result.before) :
                                 result.before[k].group = group
           IN  /\ result.status = "ok"
               /\ groups =
                      IF registered THEN result.before
                      ELSE Append(result.before,
                                  [group |-> group, pool |-> result.pigs_pool])

\* add_group was called with the name of the first of two groups or more
\* and a pool that is not the one bound to that name.
C20_Witness ==
    /\ result.op = "add_group"
    /\ Len(result.before) >= 2
    /\ result.before[1].group = result.selected_groups[1]
    /\ result.before[1].pool # result.pigs_pool

---------------------------------------------------------------------------
(* The header of a file is read.  The names line holds three or four       *)
(* parameters; each cell of the values line holds the value of its         *)
(* parameter, padded with a blank or not, or is empty or blank; each line  *)
(* ends with a semicolon or not.                                           *)

GeneralNames == <<"Weight", "Tinitial", "Tfinal", "Dose">>

\* The value written for the k-th parameter.
GeneralValues == <<"70", "08:00:00", "09:00:00", "5">>

\* The ways the cell of a word is written.
CellsOf(word) == {<<word>>, <<Blank, word>>, <<>>, <<Blank>>}

\* The line made of cells, with a final semicolon or without.
RECURSIVE Joined(_)
Joined(cells) ==
    IF cells = <<>> THEN <<>>
    ELSE IF Len(cells) = 1 THEN cells[1]
    ELSE cells[1] \o <<Semicolon>> \o Joined(Tail(cells))

LineOf(cells, final) ==
    IF final THEN Joined(cells) \o <<Semicolon>> ELSE Joined(cells)

PigIdNames == <<"Id">>

PigIdLines == {<<"P1">>, <<"P1", Semicolon>>, <<>>}

ReadHeader(names, cells, final, pig_id_line) ==
    \E r \in {read_header(LineOf([k \in 1 .. Len(names) |-> <<names[k]>>],
                                 final),
                          LineOf(cells, final),
                          LineOf([k \in 1 .. Len(PigIdNames) |->
                                     <<PigIdNames[k]>>], final),
                          pig_id_line)} :
        /\ result' = Outcome("__init__", 0, "", None, <<>>, r.status, r.error,
                             r.value, 0, <<>>)
                         @@ [names |-> names, cells |-> cells,
                             final |-> final, pig_id_line |-> pig_id_line]
        /\ UNCHANGED <<readers, pools, groups>>

InitHeader ==
    /\ readers = <<>>
    /\ pools = <<>>
    /\ groups = <<>>
    /\ result = NoCall

\* The constructor reads the header once.  The names line holds the
\* parameters from the first or from the second on, and cell k of the values
\* line is written for the k-th of them.
HeaderRead ==
    /\ result = NoCall
    /\ \E first \in 1 .. 2, final \in BOOLEAN, pig_id_line \in PigIdLines :
           \E cells \in [1 .. (Len(GeneralNames) - first + 1) ->
                             UNION {CellsOf(GeneralValues[k]) :
                                       k \in DOMAIN GeneralValues}] :
               /\ \A k \in DOMAIN cells :
                      cells[k] \in CellsOf(GeneralValues[first + k - 1])
               /\ ReadHeader(SubSeq(GeneralNames, first, Len(GeneralNames)),
                             cells, final, pig_id_line)

NextHeader == HeaderRead

SpecHeader == InitHeader /\ [][NextHeader]_vars

---------------------------------------------------------------------------
(* Names and values of the header: claim C30. *)

\* C30: each parameter name of a header names line is mapped in the
\* parameter dictionary to the value at the same semicolon-separated
\* position of the following values line, also when the value of an earlier
\* parameter is empty; in particular Tinitial and Tfinal are never bound to
\* the value of another parameter.
C30_NameMappedToValueAtPosition ==
    (result.op = "__init__" /\ result.status = "ok") =>
        \A k \in 1 .. Len(result.names) :
            /\ <<result.names[k]>> \in DOMAIN result.value
            /\ result.value[<<result.names[k]>>] = Strip(result.cells[k])

---------------------------------------------------------------------------
(* Record intervals and the rows scanned for the windows: claim C29. *)

\* C29: every record interval (first, last) that set_record_intervals
\* produces lies within the rows scanned for the windows, first >=
\* t_minus_10_index and last <= get_t_final_index(), so that no record
\* interval holds a row recorded after Tfinal, also when no scanned row
\* reaches the end time of the window.
C29_IntervalsWithinScannedRows ==
    (SegmentationDone /\ result.status = "ok") =>
        LET reader == readers[result.filename]
        IN  \A k \in 1 .. Len(reader.record_intervals) :
                /\ reader.record_intervals[k][1] >= reader.t_minus_10_index
                /\ reader.record_intervals[k][2] <= get_t_final_index(reader)

---------------------------------------------------------------------------
(* The interval indexes of the pre-mortem statistics: claim C28. *)

\* The statistics the reader of subject holds for the property were
\* computed from the interval indexes selected for the subject: the entry
\* names index + 1 for each of them.
SelectedByIndexes(subject, selected_property) ==
    LET cache == readers[subject.filename].statistics[selected_property]
    IN  /\ ~IsNone(cache)
        /\ Get(cache).intervals =
               [j \in 1 .. Len(subject.interval_indexes) |->
                   subject.interval_indexes[j] + 1]

---------------------------------------------------------------------------
(* The columns of the pool matrix: claim C27. *)

\* Column j of a matrix given as the sequence of its rows.
ColumnOfMatrix(matrix, j) == [r \in 1 .. Len(matrix) |-> matrix[r][j]]

---------------------------------------------------------------------------
(* The cache after a failed query: claim C26. *)

\* The last call was a query that raised for an interval without a
\* parseable value.
EmptyIntervalRaised ==
    /\ result.op = "get_descriptive_statistics"
    /\ result.status = "raise"
    /\ result.error.type = "PiCCO2FileReaderError"
    /\ result.error.interval > 0

\* C26: a get_descriptive_statistics call that fails because an interval has
\* no parseable value leaves the statistics cache of the reader as it was
\* before the call, without an empty or partial entry for the property (the
\* call computed, so the cache held no entry for it), and the same call made
\* again fails with the same error instead of returning a partial result.
C26_FailedQueryLeavesCache ==
    EmptyIntervalRaised =>
        /\ IsNone(readers[result.filename].statistics[result.property])
        /\ LET again == get_descriptive_statistics(readers[result.filename],
                            result.property, result.indexes)
           IN  again.status = "raise" /\ again.error = result.error

---------------------------------------------------------------------------
(* Three groups over three pools that share recordings.  Record intervals  *)
(* are set on each reader on its own, over the whole recording or over its *)
(* first rows only; the groups are added in any order, the global time     *)
(* effect is evaluated for all the groups or for a selection of them, and  *)
(* a recording is removed from the groups.                                 *)

BatchWindows == {Window(0, EndOfDay, 1, 0), Window(0, 2 * Tick, 1, 0)}

BatchPools == <<<<1>>, <<2, 1>>, <<3>>>>

\* A filename that no pool holds.
UnknownFilename == 4

\* The outcome of a call on the groups that leaves p-values per group.
BatchOutcome(op, selection, selected_groups, r) ==
    GroupsOutcome(op, "APs", selection, selected_groups, None,
        [status |-> r.status, error |-> r.error, p_values |-> r.p_values,
         requested |-> r.progress, averages_per_group |-> <<>>])
        @@ [valid_groups |-> r.valid_groups, progress |-> r.progress,
            pools_before |-> pools]

EvaluateGroupsGlobalTimeEffect(selected_property, selection, interval_indexes) ==
    \E selected_groups \in SelectedGroups(groups, selection) :
    \E r \in {PigsGroups_evaluate_global_time_effect(groups, pools, readers,
                  selected_property, selected_groups, interval_indexes)} :
        /\ readers' = r.readers
        /\ result' = BatchOutcome("PigsGroups.evaluate_global_time_effect",
                         selection, selected_groups, r)
        /\ UNCHANGED <<pools, groups>>

RemoveReaderOfGroups(filename) ==
    \E r \in {PigsGroups_remove_reader(groups, pools, filename)} :
        /\ pools' = r.pools
        /\ result' = [BatchOutcome("PigsGroups.remove_reader", None, <<>>,
                          [status |-> r.status, error |-> r.error,
                           p_values |-> <<>>, valid_groups |-> <<>>,
                           progress |-> 0])
                         EXCEPT !.filename = filename]
        /\ UNCHANGED <<readers, groups>>

InitBatch ==
    /\ readers = [f \in 1 .. 3 |->
           NewReader(f, PoolTable,
                     [p \in {"APs"} |->
                         Column(MaxRows + 1, Range(0, MaxRows + 1), 100 * f)],
                     0, MaxTick * Tick)]
    /\ pools = BatchPools
    /\ groups = NewGroups
    /\ result = NoCall

BatchSearchRecordIntervals ==
    \E f \in DOMAIN readers, w \in BatchWindows : SetRecordIntervals(f, <<w>>)

BatchGroupAdded == \E g \in 1 .. 3 : AddGroup(GroupOfPool[g], g)

BatchTimeEffect ==
    \E selection \in GroupSelections :
        EvaluateGroupsGlobalTimeEffect("APs", selection, None)

BatchReaderRemoved ==
    \E filename \in (DOMAIN readers) \cup {UnknownFilename} :
        RemoveReaderOfGroups(filename)

NextBatch ==
    \/ BatchSearchRecordIntervals
    \/ BatchGroupAdded
    \/ BatchTimeEffect
    \/ BatchReaderRemoved

SpecBatch == InitBatch /\ [][NextBatch]_vars

---------------------------------------------------------------------------
(* The global time effect over the groups: claim C24. *)

\* What the Friedman test on the pool of a group gives, or the error that
\* prevents it.
FriedmanOfGroup(group) ==
    evaluate_global_time_effect(pools[PoolOfGroup(groups, group)], readers,
        "APs", None)

\* The selected groups, in their order, on which the test can be performed.
RECURSIVE Performable(_)
Performable(selected_groups) ==
    IF selected_groups = <<>> THEN <<>>
    ELSE (IF FriedmanOfGroup(Head(selected_groups)).status = "ok"
          THEN <<Head(selected_groups)>> ELSE <<>>)
         \o Performable(Tail(selected_groups))

GroupsTimeEffectStep ==
    /\ result' # result
    /\ result'.op = "PigsGroups.evaluate_global_time_effect"

---------------------------------------------------------------------------
(* Removing a recording from the groups: claim C25. *)

\* C25: PigsGroups.remove_reader(filename) removes the subject from the pool
\* of every group that contains it and leaves every other pool, the set of
\* groups and their order unchanged; when no group contains the filename it
\* completes without error and changes nothing.
C25_RemovedFromEveryGroup ==
    result.op = "PigsGroups.remove_reader" =>
        /\ result.status = "ok"
        /\ groups = result.before
        /\ \A pool \in DOMAIN pools :
               pools[pool] =
                   IF \E k \in 1 .. Len(groups) : groups[k].pool = pool
                   THEN remove_reader(result.pools_before[pool],
                                      result.filename)
                   ELSE result.pools_before[pool]

===========================================================================
